---- MODULE Spec2Model ----
(***************************************************************************)
(* Model of the ITN API reporting core (src/src/itn_api): the coverage     *)
(* report built by get_participants_counts_date_range, the entitlement     *)
(* collation of _collate_simple and the operations that call them, the     *)
(* CSV of generate_participant_count_csv, two report requests in flight    *)
(* together, and the collector table of get_online_collectors.             *)
(*                                                                         *)
(* Representation of Python values:                                        *)
(*   str (feed ids, timestamps, keys)  sequence of one-character strings   *)
(*   staking address                   its rank in lexicographic order     *)
(*   license name                      its rank in lexicographic order     *)
(*   date string "Y-M-D"               sequence of its "-" separated       *)
(*                                     numeric fields                      *)
(*   dict filled in sorted key order   function (iteration = ascending key)*)
(*   dict in upstream order (licenses) sequence of <<key, value>> pairs    *)
(*   dict in insertion order           sequence of <<key, value>> pairs    *)
(*   None                              the record None; Some(v) otherwise  *)
(*   int wider than a machine word     its base-1,000,000 digits           *)
(***************************************************************************)
EXTENDS Integers, Sequences, FiniteSets, TLC

VARIABLES
    op,                 \* operation in flight: "none", "report", "holders", "csv", "online_collectors", or a pure function applied
    pc,                 \* position of the operation in flight
    date_start,         \* date strings of the request
    date_end,
    data,               \* rows returned by _get_participant_data_by_date_range
    licenses,           \* dict returned by get_licenses
    staked_holders,     \* map returned by retrieve_staked_holders, before get_staked deletes from it
    staked,             \* dict returned by get_staked
    aliases,            \* list returned by get_itn_alias (or None)
    holders,            \* holders handed to _collate_simple
    address_data,       \* list of LicenseHolder built by _collate_simple
    feeds,              \* feeds handed to _process_json_report
    addr_minute_values, \* coverage map handed to _process_json_report
    addr_feed_values,   \* feed map handed to _process_json_report
    report,             \* the report returned (None before)
    csv,                \* the rows of the CSV returned
    error,              \* the exception the operation ended in ("" when none)
    queries,            \* how many times each collaborator query was issued, and which raised
    min_stake,          \* request parameters of the license holder operations
    license_no,
    sort,
    stake,              \* raw amount of one holder in _collate_simple, as base-1,000,000 digits
    whole_tokens,       \* int(stake / 1000000) of that amount, as base-1,000,000 digits
    requests,           \* the executions of get_participants_counts_date_range in flight: request id -> its locals
    participants_count, \* rows of the first query of get_online_collectors
    no_feeds,           \* len(list(feed_count))
    participants_count_total,            \* the dicts of get_online_collectors, as
    participants_count_24hr,             \* <<key, value>> pairs in insertion order
    participant_count_24h_feed_average,
    participant_count_1h_feed_average,
    participant_count_1m_feed_average,   \* [dict |-> pairs], or [int |-> n] once bound to a number
    htmx                \* what get_online_collectors returns (None before)

vars == <<op, pc, date_start, date_end, data, licenses, staked_holders, staked,
          aliases, holders, address_data, feeds, addr_minute_values,
          addr_feed_values, report, csv, error, queries, min_stake, license_no,
          sort, stake, whole_tokens, requests, participants_count, no_feeds,
          participants_count_total, participants_count_24hr,
          participant_count_24h_feed_average, participant_count_1h_feed_average,
          participant_count_1m_feed_average, htmx>>

\* The locals of get_online_collectors.
collectors ==
    <<participants_count, no_feeds, participants_count_total,
      participants_count_24hr, participant_count_24h_feed_average,
      participant_count_1h_feed_average, participant_count_1m_feed_average, htmx>>

-----------------------------------------------------------------------------
(* Bounds and input alphabets.                                             *)

MaxRows == 2
MaxLicenses == 2
MaxAliases == 2

Addresses == {1, 2, 3}
LicenseNames == {1, 2, 3}
AliasNames == {<<"x">>, <<"y">>}

\* Feed ids: "f1", "f2".
FeedIds == {<<"f", "1">>, <<"f", "2">>}

\* Timestamps "00:00:10", "00:00:30", "00:01:10" (with seconds), "00:00" and
\* "00:01" (minute resolution); the date part is left out, it has no ":" in it.
TS_00_00_10 == <<"0", "0", ":", "0", "0", ":", "1", "0">>
TS_00_00_30 == <<"0", "0", ":", "0", "0", ":", "3", "0">>
TS_00_01_10 == <<"0", "0", ":", "0", "1", ":", "1", "0">>
TS_00_00 == <<"0", "0", ":", "0", "0">>
TS_00_01 == <<"0", "0", ":", "0", "1">>
Timestamps == {TS_00_00_10, TS_00_00_30, TS_00_01_10, TS_00_00, TS_00_01}

\* Date strings "2024-01-01", "2024-03-01" and the unparseable "2024-02-30".
DateStrings == {<<2024, 1, 1>>, <<2024, 3, 1>>, <<2024, 2, 30>>}

-----------------------------------------------------------------------------
(* Generic helpers.                                                        *)

Range(s) == {s[i] : i \in 1..Len(s)}

SeqsUpTo(S, n) == UNION {[1..k -> S] : k \in 0..n}

\* int(a / b) of Python for integers whose quotient a float holds exactly:
\* true division, then truncation toward zero.
TruncDiv(a, b) == IF a >= 0 THEN a \div b ELSE -((-a) \div b)

\* The elements of a set of integers in ascending order (list.sort()).
RECURSIVE SortedSeq(_)
SortedSeq(S) ==
    IF S = {} THEN <<>>
    ELSE LET m == CHOOSE x \in S : \A y \in S : x <= y
         IN <<m>> \o SortedSeq(S \ {m})

\* str.strip(): leading and trailing blanks dropped.
RECURSIVE LStrip(_)
LStrip(s) == IF Len(s) > 0 /\ s[1] = " " THEN LStrip(Tail(s)) ELSE s

RECURSIVE RStrip(_)
RStrip(s) ==
    IF Len(s) > 0 /\ s[Len(s)] = " " THEN RStrip(SubSeq(s, 1, Len(s) - 1)) ELSE s

Strip(s) == RStrip(LStrip(s))

\* s.rsplit(":", 1)[0]: the text before the last ":", all of s when it has none.
RSplitColonHead(s) ==
    LET cols == {i \in 1..Len(s) : s[i] = ":"}
    IN IF cols = {} THEN s
       ELSE SubSeq(s, 1, (CHOOSE i \in cols : \A j \in cols : j <= i) - 1)

\* sep.join(items), for a list of strings
RECURSIVE Join(_, _)
Join(sep, items) ==
    IF Len(items) = 0 THEN <<>>
    ELSE IF Len(items) = 1 THEN items[1]
    ELSE items[1] \o sep \o Join(sep, Tail(items))

\* Python's None, and a value that is not None.
None == [isNone |-> TRUE]

Some(v) == [isNone |-> FALSE, val |-> v]

\* An empty dict.
EmptyDict == [k \in {} |-> <<>>]

-----------------------------------------------------------------------------
(* helpers.py                                                              *)

MINUTES_DAY == 1440

IsLeap(y) == (y % 4 = 0 /\ y % 100 # 0) \/ y % 400 = 0

DaysInMonth(y, m) ==
    IF m = 2 THEN (IF IsLeap(y) THEN 29 ELSE 28)
    ELSE IF m \in {4, 6, 9, 11} THEN 30 ELSE 31

\* Whether datetime.strptime(s, "%Y-%m-%d") succeeds: three numeric fields
\* that name a day of the calendar. It raises ValueError otherwise.
StrptimeOk(s) ==
    /\ Len(s) = 3
    /\ s[1] \in 1..9999
    /\ s[2] \in 1..12
    /\ s[3] \in 1..DaysInMonth(s[1], s[2])

RECURSIVE DaysBeforeMonth(_, _)
DaysBeforeMonth(y, m) ==
    IF m = 1 THEN 0 ELSE DaysBeforeMonth(y, m - 1) + DaysInMonth(y, m - 1)

\* The proleptic Gregorian ordinal of a parsed date (date.toordinal()).
Ordinal(s) ==
    LET y == s[1] - 1
    IN 365 * y + (y \div 4) - (y \div 100) + (y \div 400)
       + DaysBeforeMonth(s[1], s[2]) + s[3]

\* get_minutes with a range that ends before it starts clamped to zero.
get_minutes_clamped(date_str_1, date_str_2) ==
    IF ~StrptimeOk(date_str_1) \/ ~StrptimeOk(date_str_2)
    THEN [error |-> "ValueError", value |-> 0]
    ELSE LET total_seconds == (Ordinal(date_str_2) - Ordinal(date_str_1)) * 86400
         IN [error |-> "",
             value |-> IF total_seconds < 0 THEN 0 ELSE TruncDiv(total_seconds, 60)]

\* get_minutes: [error, value]; error is "ValueError" when a string does not parse.
get_minutes(date_str_1, date_str_2) ==
    IF ~StrptimeOk(date_str_1) \/ ~StrptimeOk(date_str_2)
    THEN [error |-> "ValueError", value |-> 0]
    ELSE LET total_seconds == (Ordinal(date_str_2) - Ordinal(date_str_1)) * 86400
         IN [error |-> "", value |-> TruncDiv(total_seconds, 60)]

\* update_dict: append to the list under key, creating it when missing.
update_dict(index, key, value) ==
    IF key \in DOMAIN index
    THEN [index EXCEPT ![key] = Append(@, value)]
    ELSE index @@ (key :> <<value>>)

\* list(set(value)): the distinct elements, in an order the code does not fix
\* (every consumer takes set() of it again).
RECURSIVE ListOfSet(_)
ListOfSet(S) ==
    IF S = {} THEN <<>>
    ELSE LET x == CHOOSE e \in S : TRUE IN <<x>> \o ListOfSet(S \ {x})

dedupe_dicts(index) == [key \in DOMAIN index |-> ListOfSet(Range(index[key]))]

-----------------------------------------------------------------------------
(* reports.py: coverage                                                    *)

\* A row of data_points: (address, date_time, feed_id).
Row(addr, ts, feed) == <<addr, ts, feed>>

\* The addresses of the rows, each once, in first-seen order.
RECURSIVE FirstSeen(_, _)
FirstSeen(rows, seen) ==
    IF Len(rows) = 0 THEN seen
    ELSE FirstSeen(Tail(rows),
                   IF rows[1][1] \in Range(seen) THEN seen
                   ELSE Append(seen, rows[1][1]))

\* _get_unique_feeds: the set of raw feed ids (list(set(feeds)), order not
\* fixed) and the addresses in first-seen order.
get_unique_feeds(rows) ==
    [feeds |-> {rows[i][3] : i \in 1..Len(rows)},
     addresses |-> FirstSeen(rows, <<>>)]

\* The coverage unit key f"{feed}|{minutes}" of a row.
MinutesOf(item) == Strip(RSplitColonHead(item[2]))

FeedOf(item) == Strip(item[3])

UnitKey(item) == FeedOf(item) \o <<"|">> \o MinutesOf(item)

\* The inner loop of _get_addr_minute_feed_dicts for one address.
RECURSIVE ScanRows(_, _, _)
ScanRows(rows, addr, dicts) ==
    IF Len(rows) = 0 THEN dicts
    ELSE LET item == rows[1]
         IN IF item[1] # addr THEN ScanRows(Tail(rows), addr, dicts)
            ELSE ScanRows(Tail(rows), addr,
                     [minute |-> update_dict(dicts.minute, addr, UnitKey(item)),
                      feed |-> update_dict(dicts.feed, addr, FeedOf(item))])

RECURSIVE ScanAddresses(_, _, _)
ScanAddresses(addrs, rows, dicts) ==
    IF Len(addrs) = 0 THEN dicts
    ELSE ScanAddresses(Tail(addrs), rows, ScanRows(rows, addrs[1], dicts))

\* _get_addr_minute_feed_dicts: [minute, feed], two dicts of lists.
get_addr_minute_feed_dicts(rows, addresses) ==
    ScanAddresses(SortedSeq(Range(addresses)), rows,
                  [minute |-> EmptyDict, feed |-> EmptyDict])

-----------------------------------------------------------------------------
(* reports.py: entitlement collation                                       *)

\* The text of a license name: ranks 1, 2, 3 are "Validator License #001",
\* "Validator License #0010" and "Validator License #002", which sort in
\* that order as Python strings.
NameText(n) ==
    <<"Validator License ">> \o
        (CASE n = 1 -> <<"#", "0", "0", "1">>
           [] n = 2 -> <<"#", "0", "0", "1", "0">>
           [] OTHER -> <<"#", "0", "0", "2">>)

\* The texts of a list of license names.
Texts(names) == [i \in 1..Len(names) |-> NameText(names[i])]

\* LicenseHolder(staking, staked, licenses, alias)
LicenseHolder(staking, staked_, licenses_, alias) ==
    [staking |-> staking, staked |-> staked_, licenses |-> licenses_, alias |-> alias]

\* _search_aliases: the alias of the first entry whose staking is addr, else "".
RECURSIVE search_aliases(_, _)
search_aliases(aliases_, addr) ==
    IF Len(aliases_) = 0 THEN <<>>
    ELSE IF aliases_[1].staking # addr THEN search_aliases(Tail(aliases_), addr)
    ELSE aliases_[1].alias

\* Python's truth value of an optional list: None and [] are false.
Truthy(opt) == ~opt.isNone /\ Len(opt.val) > 0

\* The license names of the dict that map to holder, in the dict's order.
HeldBy(licenses_, holder) ==
    LET sel == SelectSeq(licenses_, LAMBDA p : p[2] = holder)
    IN [i \in 1..Len(sel) |-> sel[i][1]]

\* The alias kept from the holder before when the search finds no entry.
AliasFor_carried(aliases_, holder, alias) ==
    IF Truthy(aliases_)
          /\ \E i \in 1..Len(aliases_.val) : aliases_.val[i].staking = holder
    THEN search_aliases(aliases_.val, holder)
    ELSE alias

\* The alias given to holder; alias is the loop's variable from the holder before.
AliasFor(aliases_, holder, alias) ==
    IF Truthy(aliases_) THEN search_aliases(aliases_.val, holder) ELSE alias

\* The divisor of line 111.
Million == 1000000

\* The significand of a Python float (IEEE 754 binary64).
MantissaBits == 53

\* A Python int wider than a machine word is the sequence of its digits in
\* base 1,000,000, most significant first. a <= b for two of the same length.
RECURSIVE WideLeq(_, _)
WideLeq(a, b) ==
    IF a = <<>> THEN TRUE
    ELSE IF Head(a) # Head(b) THEN Head(a) < Head(b)
    ELSE WideLeq(Tail(a), Tail(b))

\* k + 1 for a two-digit k.
WideSucc(k) == IF k[2] = Million - 1 THEN <<k[1] + 1, 0>> ELSE <<k[1], k[2] + 1>>

\* 2^e for a machine-word result.
RECURSIVE Pow2(_)
Pow2(e) == IF e = 0 THEN 1 ELSE 2 * Pow2(e - 1)

\* 2^e as two digits (the high digit is left to grow past the base).
RECURSIVE WidePow2(_)
WidePow2(e) ==
    IF e = 0 THEN <<0, 1>>
    ELSE LET h == WidePow2(e - 1)
         IN <<2 * h[1] + ((2 * h[2]) \div Million), (2 * h[2]) % Million>>

\* The binary exponent of a two-digit k >= 1: 2^e <= k < 2^(e+1).
Exponent(k) ==
    CHOOSE e \in 0..40 : WideLeq(WidePow2(e), k) /\ ~WideLeq(WidePow2(e + 1), k)

\* stake / 1000000 is the float nearest to k + rem / 1000000, where k is the
\* whole quotient and rem the remainder. Floats at k are 2^(e+1-53) apart, k and
\* k + 1 are floats, so the quotient rounds to k + 1 exactly when
\* (1000000 - rem) * 2^(53-e) <= 1000000 (a tie goes to k + 1, whose
\* significand is even), which needs 2^(53-e) <= 1000000 < 2^20.
RoundsUp(k, rem) ==
    /\ k # <<0, 0>>
    /\ LET p == MantissaBits - Exponent(k)
       IN p < 20 /\ Million - rem <= Million \div Pow2(p)

\* int(stake / 1000000) for a three-digit stake: true division in floating
\* point, then truncation.
int_true_div(stake_) ==
    LET k == <<stake_[1], stake_[2]>>
    IN IF RoundsUp(k, stake_[3]) THEN WideSucc(k) ELSE k

\* int(stake / 1000000) for a stake of a machine word.
WholeTokens(stake_) ==
    LET q == int_true_div(<<0, stake_ \div Million, stake_ % Million>>)
    IN q[1] * Million + q[2]

\* The loop of _collate_simple over the sorted holders.
RECURSIVE CollateLoop(_, _, _, _, _, _)
CollateLoop(hs, staked_, licenses_, aliases_, alias, all_holders) ==
    IF Len(hs) = 0 THEN all_holders
    ELSE LET holder == hs[1]
             found == AliasFor(aliases_, holder, alias)
         IN CollateLoop(Tail(hs), staked_, licenses_, aliases_, found,
                Append(all_holders,
                       LicenseHolder(holder, WholeTokens(staked_[holder]),
                                     HeldBy(licenses_, holder), found)))

\* a < b for two lists of license names (Python's list comparison).
RECURSIVE ListLess(_, _)
ListLess(a, b) ==
    IF Len(b) = 0 THEN FALSE
    ELSE IF Len(a) = 0 THEN TRUE
    ELSE IF a[1] < b[1] THEN TRUE
    ELSE IF b[1] < a[1] THEN FALSE
    ELSE ListLess(Tail(a), Tail(b))

\* The sort keyed by the alias first, the licenses second.
KeyLess_alias_first(x, y) ==
    \/ Len(x.alias) < Len(y.alias)
    \/ Len(x.alias) = Len(y.alias) /\ ListLess(x.licenses, y.licenses)

\* The sort key of _collate_simple's sorted(): x goes before y.
KeyLess(x, y) == ListLess(x.licenses, y.licenses)

\* x placed in front of the elements it compares equal to: not stable.
RECURSIVE StableInsert_front(_, _)
StableInsert_front(sorted, x) ==
    IF Len(sorted) = 0 THEN <<x>>
    ELSE IF ~KeyLess(sorted[1], x) THEN <<x>> \o sorted
    ELSE <<sorted[1]>> \o StableInsert_front(Tail(sorted), x)

\* x placed into a sorted list behind every element that does not sort after it.
RECURSIVE StableInsert(_, _)
StableInsert(sorted, x) ==
    IF Len(sorted) = 0 THEN <<x>>
    ELSE IF KeyLess(x, sorted[1]) THEN <<x>> \o sorted
    ELSE <<sorted[1]>> \o StableInsert(Tail(sorted), x)

\* sorted(all_holders, key=licenses, reverse=False): stable.
RECURSIVE SortedByLicenses(_, _)
SortedByLicenses(list, sorted) ==
    IF Len(list) = 0 THEN sorted
    ELSE SortedByLicenses(Tail(list), StableInsert(sorted, list[1]))

\* _collate_simple; holders_ is the set the caller's list holds, which
\* holders.sort() puts in ascending order.
collate_simple(holders_, staked_, licenses_, aliases_) ==
    SortedByLicenses(
        CollateLoop(SortedSeq(holders_), staked_, licenses_, aliases_, <<>>, <<>>),
        <<>>)

\* The holders without the intersection: every address with a stake.
Holders_stake_only(staked_, licenses_) == DOMAIN staked_

\* set(license_holders).intersection(fact_holders)
Holders(staked_, licenses_) ==
    {licenses_[i][2] : i \in 1..Len(licenses_)} \cap DOMAIN staked_

\* The filter keeping every record with a license whose name starts with the needle.
FilterLicense_contains(all_license_data, license_no_) ==
    IF license_no_.isNone \/ Len(license_no_.val) = 0 THEN all_license_data
    ELSE LET needle == <<"Validator License ">> \o license_no_.val
         IN SelectSeq(all_license_data,
                LAMBDA lic : \E i \in 1..Len(lic.licenses) :
                    LET name == NameText(lic.licenses[i])
                    IN Len(name) >= Len(needle)
                          /\ SubSeq(name, 1, Len(needle)) = needle)

\* The license_no filter of _get_all_alias_addr_data.
FilterLicense(all_license_data, license_no_) ==
    IF license_no_.isNone \/ Len(license_no_.val) = 0 THEN all_license_data
    ELSE LET needle == <<"Validator License ">> \o license_no_.val
         IN SelectSeq(all_license_data,
                LAMBDA lic : \E i \in 1..Len(lic.licenses) :
                                 NameText(lic.licenses[i]) = needle)

\* _get_all_alias_addr_data, once its three queries have answered.
get_all_alias_addr_data(aliases_, licenses_, staked_, license_no_) ==
    FilterLicense(
        collate_simple(Holders(staked_, licenses_), staked_, licenses_, aliases_),
        license_no_)

\* _get_basic_addr_data, once its two queries have answered.
get_basic_addr_data(licenses_, staked_) ==
    collate_simple(Holders(staked_, licenses_), staked_, licenses_, None)

-----------------------------------------------------------------------------
(* simple_sign_helpers.py                                                  *)

MIN_FACT == 500000

\* get_staked: the upstream stake map without the addresses it deletes.
get_staked(upstream, min_stake_) ==
    [a \in {k \in DOMAIN upstream : upstream[k] > min_stake_} |-> upstream[a]]

-----------------------------------------------------------------------------
(* reports.py: report assembly                                             *)

\* _get_license_and_stake looking at the first record only.
get_license_and_stake_first(address_data_, addr, found) ==
    IF Len(address_data_) = 0 THEN found
    ELSE IF address_data_[1].staking # addr THEN found
    ELSE [license |-> Some(Join(<<",", " ">>, Texts(address_data_[1].licenses))),
          stake |-> Some(address_data_[1].staked)]

\* _get_license_and_stake: the ", "-joined licenses and the stake of the last
\* record whose staking is addr; (None, None) when there is none.
RECURSIVE get_license_and_stake(_, _, _)
get_license_and_stake(address_data_, addr, found) ==
    IF Len(address_data_) = 0 THEN found
    ELSE LET address == address_data_[1]
         IN get_license_and_stake(Tail(address_data_), addr,
                IF address.staking # addr THEN found
                ELSE [license |-> Some(Join(<<",", " ">>, Texts(address.licenses))),
                      stake |-> Some(address.staked)])

\* Counter(list).items(): each distinct element with its count, first seen first.
RECURSIVE CounterItems(_, _)
CounterItems(list, seen) ==
    IF Len(list) = 0 THEN <<>>
    ELSE IF list[1] \in seen THEN CounterItems(Tail(list), seen)
    ELSE <<[key |-> list[1],
            value |-> Cardinality({i \in 1..Len(list) : list[i] = list[1]})]>>
         \o CounterItems(Tail(list), seen \cup {list[1]})

\* The pairs counted over the de-duplicated list: every count is 1.
FeedsCount_deduped(list) ==
    LET items == CounterItems(ListOfSet(Range(list)), {})
    IN [i \in 1..Len(items) |->
           [str |-> items[i].key \o <<":", " ">>, num |-> items[i].value]]

\* f"{key}: {value}": the text up to the number, and the number it ends in.
FeedsCount(list) ==
    LET items == CounterItems(list, {})
    IN [i \in 1..Len(items) |->
           [str |-> items[i].key \o <<":", " ">>, num |-> items[i].value]]

\* The entry of one address in the report's data (lines 198-212).
CountsEntry(address_data_, addr, value, addr_feeds, feeds_, minutes_in_range) ==
    LET total_mins == Cardinality(Range(value))
        found == get_license_and_stake(address_data_, addr,
                                       [license |-> None, stake |-> None])
    IN [license |-> found.license,
        stake |-> found.stake,
        total_data_points |-> total_mins,
        average_mins_collecting_per_feed |->
            TruncDiv(total_mins, Cardinality(feeds_)),
        total_mins_in_date_range |-> minutes_in_range,
        number_of_feeds_collected |-> Cardinality(Range(addr_feeds)),
        feeds_count |-> FeedsCount(addr_feeds)]

\* The exception _process_json_report ends in, "" when it returns:
\* get_minutes raises first (line 194), then the loop's first pass divides by
\* len(set(feeds)) (line 199) and reads addr_feed_values[addr] (line 207).
ReportError(date_start_, date_end_, minute_values, feed_values, feeds_) ==
    IF get_minutes(date_start_, date_end_).error # "" THEN "ValueError"
    ELSE IF DOMAIN minute_values # {} /\ Cardinality(feeds_) = 0
    THEN "ZeroDivisionError"
    ELSE IF \E a \in DOMAIN minute_values : a \notin DOMAIN feed_values
    THEN "KeyError"
    ELSE ""

\* _process_json_report: [error, report]; the report is None when it raises.
process_json_report(address_data_, date_start_, date_end_, minute_values, feed_values, feeds_) ==
    LET err == ReportError(date_start_, date_end_, minute_values, feed_values, feeds_)
        minutes_in_range == get_minutes(date_start_, date_end_).value
    IN IF err # "" THEN [error |-> err, report |-> None]
       ELSE [error |-> "",
             report |-> Some(
               [start |-> date_start_,
                end |-> date_end_,
                expected_number_of_feeds |-> Cardinality(feeds_),
                max_possible_data_points |-> minutes_in_range * Cardinality(feeds_),
                data |-> [addr \in DOMAIN minute_values |->
                             CountsEntry(address_data_, addr, minute_values[addr],
                                         feed_values[addr], feeds_, minutes_in_range)],
                expected_feeds |-> feeds_,
                total_days_in_date_range |->
                    TruncDiv(minutes_in_range, MINUTES_DAY)])]

\* get_participants_counts_date_range, lines 230-239, once the store and
\* the entitlement source have answered.
participants_report(rows, address_data_, date_start_, date_end_) ==
    LET uf == get_unique_feeds(rows)
        dicts == get_addr_minute_feed_dicts(rows, uf.addresses)
    IN process_json_report(address_data_, date_start_, date_end_,
                           dedupe_dicts(dicts.minute), dicts.feed, uf.feeds)

-----------------------------------------------------------------------------
(* reports.py: get_all_license_holders_csv                                 *)

\* str.lower() on the letters the sort parameter is drawn from.
Lower(str) == [i \in 1..Len(str) |-> IF str[i] = "S" THEN "s" ELSE str[i]]

\* x placed into a list sorted by descending stake, behind its equals.
RECURSIVE StakeInsert(_, _)
StakeInsert(sorted, x) ==
    IF Len(sorted) = 0 THEN <<x>>
    ELSE IF sorted[1].staked < x.staked THEN <<x>> \o sorted
    ELSE <<sorted[1]>> \o StakeInsert(Tail(sorted), x)

\* sorted(alias_addr_data, key=staked, reverse=True)
RECURSIVE SortedByStake(_, _)
SortedByStake(list, sorted) ==
    IF Len(list) = 0 THEN sorted
    ELSE SortedByStake(Tail(list), StakeInsert(sorted, list[1]))

\* The rows under the header "idx,staking,license,value" (lines 80-90).
license_holders_csv(alias_addr_data, sort_) ==
    LET ordered == IF Strip(Lower(sort_)) = <<"s", "t", "a", "k", "e">>
                   THEN SortedByStake(alias_addr_data, <<>>)
                   ELSE alias_addr_data
    IN [idx \in 1..Len(ordered) |->
           [idx |-> idx,
            staking |-> ordered[idx].staking,
            license |-> Join(<<" ">>, Texts(ordered[idx].licenses)),
            value |-> ordered[idx].staked]]

-----------------------------------------------------------------------------
(* What the collaborators can answer.                                      *)

\* Rows of data_points within a window: addresses 1 and 2 collect.
RowAddresses == {1, 2}

Rows == {Row(a, ts, f) : a \in RowAddresses, ts \in Timestamps, f \in FeedIds}

\* The query orders its rows by address.
Batches ==
    {b \in SeqsUpTo(Rows, MaxRows) : \A i \in 1..(Len(b) - 1) : b[i][1] <= b[i + 1][1]}

\* License dicts: distinct license names, each held by an address.
LicenseDicts ==
    {l \in SeqsUpTo(LicenseNames \X Addresses, MaxLicenses) :
        \A i, j \in 1..Len(l) : i # j => l[i][1] # l[j][1]}

\* Stake dicts as get_staked returns them: any of the addresses, with its stake.
StakeOf == (1 :> 600000 @@ 2 :> 2500000 @@ 3 :> 1999999)

StakeDicts == {[a \in D |-> StakeOf[a]] : D \in SUBSET Addresses}

\* Alias lists of get_itn_alias.
AliasEntries == {[staking |-> a, alias |-> n] : a \in Addresses, n \in AliasNames}

AliasLists == SeqsUpTo(AliasEntries, MaxAliases)

\* The answers of the entitlement source the operations are run against.
SourceLicenses ==
    {<<>>, <<<<1, 1>>>>, <<<<3, 1>>, <<1, 1>>>>, <<<<2, 2>>, <<1, 3>>>>}

SourceStakes ==
    {EmptyDict, (1 :> 2500000), (1 :> 500000 @@ 2 :> 600000 @@ 3 :> 1999999)}

SourceAliases ==
    {<<>>, <<[staking |-> 1, alias |-> <<"x">>]>>,
     <<[staking |-> 3, alias |-> <<"y">>], [staking |-> 3, alias |-> <<"x">>]>>}

MinStakes == {0, MIN_FACT}

LicenseNos == {None, Some(<<"#", "0", "0", "1">>), Some(<<"#", "0", "0", "2">>)}

Sorts == {<<"s", "t", "a", "k", "e">>, <<"S", "t", "a", "k", "e", " ">>,
          <<"l", "i", "c", "e", "n", "s", "e">>}

-----------------------------------------------------------------------------
(* The operations.                                                         *)

\* No query issued yet: the count of each query, and the queries that raised.
NoQueries == [store |-> 0, alias |-> 0, licenses |-> 0, staked |-> 0, raised |-> {}]

\* The requests that can be in flight together.
RequestIds == {1, 2}

\* The locals of get_participants_counts_date_range before the call.
IdleFrame ==
    [pc |-> "idle", date_start |-> <<>>, date_end |-> <<>>, data |-> <<>>,
     feeds |-> {}, addresses |-> <<>>, addr_minute_values |-> EmptyDict,
     addr_feed_values |-> EmptyDict, licenses |-> <<>>, staked |-> EmptyDict,
     address_data |-> <<>>, report |-> None, error |-> ""]

Init ==
    /\ participants_count = <<>>
    /\ no_feeds = 0
    /\ participants_count_total = <<>>
    /\ participants_count_24hr = <<>>
    /\ participant_count_24h_feed_average = <<>>
    /\ participant_count_1h_feed_average = <<>>
    /\ participant_count_1m_feed_average = [dict |-> <<>>]
    /\ htmx = None
    /\ requests = [r \in RequestIds |-> IdleFrame]
    /\ whole_tokens = <<0, 0>>
    /\ stake = <<0, 0, 0>>
    /\ staked_holders = EmptyDict
    /\ op = "none"
    /\ pc = "idle"
    /\ date_start = <<>>
    /\ date_end = <<>>
    /\ data = <<>>
    /\ licenses = <<>>
    /\ staked = EmptyDict
    /\ aliases = None
    /\ holders = {}
    /\ address_data = <<>>
    /\ feeds = {}
    /\ addr_minute_values = EmptyDict
    /\ addr_feed_values = EmptyDict
    /\ report = None
    /\ csv = <<>>
    /\ error = ""
    /\ queries = NoQueries
    /\ min_stake = MIN_FACT
    /\ license_no = None
    /\ sort = <<>>

\* api.py get_participants_counts_day: a report is asked for.
Call_report ==
    /\ pc = "idle"
    /\ \E ds \in DateStrings, de \in DateStrings :
          /\ date_start' = ds
          /\ date_end' = de
    /\ op' = "report"
    /\ pc' = "query_store"
    /\ UNCHANGED <<data, licenses, staked, aliases, holders, address_data, feeds,
                   addr_minute_values, addr_feed_values, report, csv, error, queries,
                   min_stake, license_no, sort>>
    /\ UNCHANGED <<staked_holders, stake, whole_tokens, requests, collectors>>

\* Line 229 answers; lines 230-234 build the coverage maps from the rows.
QueryStore ==
    /\ pc = "query_store"
    /\ \E rows \in Batches :
          LET uf == get_unique_feeds(rows)
              dicts == get_addr_minute_feed_dicts(rows, uf.addresses)
          IN /\ data' = rows
             /\ feeds' = uf.feeds
             /\ addr_minute_values' = dedupe_dicts(dicts.minute)
             /\ addr_feed_values' = dicts.feed
    /\ queries' = [queries EXCEPT !.store = @ + 1]
    /\ pc' = "get_licenses"
    /\ UNCHANGED <<op, date_start, date_end, licenses, staked, aliases, holders,
                   address_data, report, csv, error, min_stake, license_no, sort>>
    /\ UNCHANGED <<staked_holders, stake, whole_tokens, requests, collectors>>

\* Line 229 raises: the store's error ends the operation.
QueryStoreFails ==
    /\ pc = "query_store"
    /\ queries' = [queries EXCEPT !.store = @ + 1, !.raised = @ \cup {"store"}]
    /\ error' = "SQLError"
    /\ pc' = "failed"
    /\ UNCHANGED <<op, date_start, date_end, data, licenses, staked, aliases, holders,
                   address_data, feeds, addr_minute_values, addr_feed_values, report,
                   csv, min_stake, license_no, sort>>
    /\ UNCHANGED <<staked_holders, stake, whole_tokens, requests, collectors>>

\* api.py get_itn_aliases_and_staking, get_itn_participants: the holders are asked for.
Call_holders ==
    /\ pc = "idle"
    /\ \E ms \in MinStakes, no \in LicenseNos :
          /\ min_stake' = ms
          /\ license_no' = no
    /\ op' = "holders"
    /\ pc' = "get_itn_alias"
    /\ UNCHANGED <<date_start, date_end, data, licenses, staked, aliases, holders,
                   address_data, feeds, addr_minute_values, addr_feed_values, report,
                   csv, error, queries, sort>>
    /\ UNCHANGED <<staked_holders, stake, whole_tokens, requests, collectors>>

\* api.py get_itn_aliases_and_staking_csv: the holders' CSV is asked for.
Call_csv ==
    /\ pc = "idle"
    /\ \E ms \in MinStakes, so \in Sorts :
          /\ min_stake' = ms
          /\ sort' = so
    /\ op' = "csv"
    /\ pc' = "get_itn_alias"
    /\ UNCHANGED <<date_start, date_end, data, licenses, staked, aliases, holders,
                   address_data, feeds, addr_minute_values, addr_feed_values, report,
                   csv, error, queries, license_no>>
    /\ UNCHANGED <<staked_holders, stake, whole_tokens, requests, collectors>>

\* Line 54 answers.
GetItnAlias ==
    /\ pc = "get_itn_alias"
    /\ \E al \in SourceAliases : aliases' = Some(al)
    /\ queries' = [queries EXCEPT !.alias = @ + 1]
    /\ pc' = "get_licenses"
    /\ UNCHANGED <<op, date_start, date_end, data, licenses, staked, holders,
                   address_data, feeds, addr_minute_values, addr_feed_values, report,
                   csv, error, min_stake, license_no, sort>>
    /\ UNCHANGED <<staked_holders, stake, whole_tokens, requests, collectors>>

\* Lines 55, 124 answer.
GetLicenses ==
    /\ pc = "get_licenses"
    /\ \E l \in SourceLicenses : licenses' = l
    /\ queries' = [queries EXCEPT !.licenses = @ + 1]
    /\ pc' = "get_staked"
    /\ UNCHANGED <<op, date_start, date_end, data, staked, aliases, holders,
                   address_data, feeds, addr_minute_values, addr_feed_values, report,
                   csv, error, min_stake, license_no, sort>>
    /\ UNCHANGED <<staked_holders, stake, whole_tokens, requests, collectors>>

\* Lines 56, 125 answer (get_staked filters the upstream map); the rest of
\* the operation follows: the collation, and for a report lines 236-239, for
\* the CSV lines 80-90.
GetStaked ==
    /\ pc = "get_staked"
    /\ \E upstream \in SourceStakes :
          LET st == get_staked(upstream, min_stake)
              all == IF op = "report" THEN get_basic_addr_data(licenses, st)
                     ELSE get_all_alias_addr_data(aliases, licenses, st,
                              IF op = "csv" THEN None ELSE license_no)
              res == IF op = "report"
                     THEN process_json_report(all, date_start, date_end,
                              addr_minute_values, addr_feed_values, feeds)
                     ELSE [error |-> "", report |-> None]
          IN /\ staked_holders' = upstream
             /\ staked' = st
             /\ holders' = Holders(st, licenses)
             /\ address_data' = all
             /\ report' = res.report
             /\ error' = res.error
             /\ csv' = IF op = "csv" THEN license_holders_csv(all, sort) ELSE <<>>
             /\ pc' = IF res.error = "" THEN "done" ELSE "failed"
    /\ queries' = [queries EXCEPT !.staked = @ + 1]
    /\ UNCHANGED <<op, date_start, date_end, data, licenses, aliases, feeds,
                   addr_minute_values, addr_feed_values, min_stake, license_no, sort>>
    /\ UNCHANGED <<stake, whole_tokens, requests, collectors>>

\* A query to the entitlement source raises and the operation carries on
\* with an empty answer in its place.
SourceFails_swallowed ==
    /\ pc \in {"get_itn_alias", "get_licenses"}
    /\ queries' =
          [queries EXCEPT
             !.alias = IF pc = "get_itn_alias" THEN @ + 1 ELSE @,
             !.licenses = IF pc = "get_licenses" THEN @ + 1 ELSE @,
             !.raised = @ \cup {pc}]
    /\ aliases' = IF pc = "get_itn_alias" THEN Some(<<>>) ELSE aliases
    /\ pc' = IF pc = "get_itn_alias" THEN "get_licenses" ELSE "get_staked"
    /\ UNCHANGED <<op, date_start, date_end, data, licenses, staked, holders,
                   address_data, feeds, addr_minute_values, addr_feed_values, report,
                   csv, error, min_stake, license_no, sort>>
    /\ UNCHANGED <<staked_holders, stake, whole_tokens, requests, collectors>>

\* A query to the entitlement source raises: its error ends the operation.
SourceFails ==
    /\ pc \in {"get_itn_alias", "get_licenses", "get_staked"}
    /\ queries' =
          [queries EXCEPT
             !.alias = IF pc = "get_itn_alias" THEN @ + 1 ELSE @,
             !.licenses = IF pc = "get_licenses" THEN @ + 1 ELSE @,
             !.staked = IF pc = "get_staked" THEN @ + 1 ELSE @,
             !.raised = @ \cup {pc}]
    /\ error' = "SourceError"
    /\ pc' = "failed"
    /\ UNCHANGED <<op, date_start, date_end, data, licenses, staked, aliases, holders,
                   address_data, feeds, addr_minute_values, addr_feed_values, report,
                   csv, min_stake, license_no, sort>>
    /\ UNCHANGED <<staked_holders, stake, whole_tokens, requests, collectors>>

\* The operation has returned or raised; the next request starts afresh.
Return ==
    /\ pc \in {"done", "failed"}
    /\ participants_count' = <<>>
    /\ no_feeds' = 0
    /\ participants_count_total' = <<>>
    /\ participants_count_24hr' = <<>>
    /\ participant_count_24h_feed_average' = <<>>
    /\ participant_count_1h_feed_average' = <<>>
    /\ participant_count_1m_feed_average' = [dict |-> <<>>]
    /\ htmx' = None
    /\ requests' = [r \in RequestIds |-> IdleFrame]
    /\ whole_tokens' = <<0, 0>>
    /\ stake' = <<0, 0, 0>>
    /\ staked_holders' = EmptyDict
    /\ op' = "none"
    /\ pc' = "idle"
    /\ date_start' = <<>>
    /\ date_end' = <<>>
    /\ data' = <<>>
    /\ licenses' = <<>>
    /\ staked' = EmptyDict
    /\ aliases' = None
    /\ holders' = {}
    /\ address_data' = <<>>
    /\ feeds' = {}
    /\ addr_minute_values' = EmptyDict
    /\ addr_feed_values' = EmptyDict
    /\ report' = None
    /\ csv' = <<>>
    /\ error' = ""
    /\ queries' = NoQueries
    /\ min_stake' = MIN_FACT
    /\ license_no' = None
    /\ sort' = <<>>

Next ==
    \/ Call_report
    \/ QueryStore
    \/ QueryStoreFails
    \/ Call_holders
    \/ Call_csv
    \/ GetItnAlias
    \/ GetLicenses
    \/ GetStaked
    \/ SourceFails
    \/ Return

Spec == Init /\ [][Next]_vars

-----------------------------------------------------------------------------
(* The entitlement collation applied to every input within the bounds.     *)

AliasOptions == {None} \cup {Some(al) : al \in AliasLists}

\* _collate_simple on any holders that have a stake.
Apply_collate_simple ==
    /\ pc = "idle"
    /\ \E st \in StakeDicts, l \in LicenseDicts,
          al \in {None} \cup {Some(x) : x \in SourceAliases} :
          \E hs \in SUBSET DOMAIN st :
             /\ staked' = st
             /\ licenses' = l
             /\ aliases' = al
             /\ holders' = hs
             /\ address_data' = collate_simple(hs, st, l, al)
    /\ op' = "collate_simple"
    /\ pc' = "done"
    /\ UNCHANGED <<date_start, date_end, data, feeds, addr_minute_values,
                   addr_feed_values, report, csv, error, queries, min_stake,
                   license_no, sort>>
    /\ UNCHANGED <<staked_holders, stake, whole_tokens, requests, collectors>>

\* _get_all_alias_addr_data without a license filter, on any answers of the source.
Apply_get_all_alias_addr_data ==
    /\ pc = "idle"
    /\ \E st \in StakeDicts, l \in LicenseDicts, al \in AliasLists :
          /\ staked' = st
          /\ licenses' = l
          /\ aliases' = Some(al)
          /\ holders' = Holders(st, l)
          /\ address_data' = get_all_alias_addr_data(Some(al), l, st, None)
    /\ op' = "get_all_alias_addr_data"
    /\ pc' = "done"
    /\ UNCHANGED <<date_start, date_end, data, feeds, addr_minute_values,
                   addr_feed_values, report, csv, error, queries, min_stake,
                   license_no, sort>>
    /\ UNCHANGED <<staked_holders, stake, whole_tokens, requests, collectors>>

\* _get_basic_addr_data on any answers of the source.
Apply_get_basic_addr_data ==
    /\ pc = "idle"
    /\ \E st \in StakeDicts, l \in LicenseDicts :
          /\ staked' = st
          /\ licenses' = l
          /\ holders' = Holders(st, l)
          /\ address_data' = get_basic_addr_data(l, st)
    /\ op' = "get_basic_addr_data"
    /\ pc' = "done"
    /\ UNCHANGED <<date_start, date_end, data, aliases, feeds, addr_minute_values,
                   addr_feed_values, report, csv, error, queries, min_stake,
                   license_no, sort>>
    /\ UNCHANGED <<staked_holders, stake, whole_tokens, requests, collectors>>

\* The selectors of the license filter: none, "", "#00", "#001", "#002".
Selectors == LicenseNos \cup {Some(<<>>), Some(<<"#", "0", "0">>)}

\* _get_all_alias_addr_data with a license_no, on any answers of the source.
Apply_license_filter ==
    /\ pc = "idle"
    /\ \E st \in StakeDicts, l \in LicenseDicts, al \in SourceAliases,
          no \in Selectors :
          /\ staked' = st
          /\ licenses' = l
          /\ aliases' = Some(al)
          /\ license_no' = no
          /\ holders' = Holders(st, l)
          /\ address_data' = get_all_alias_addr_data(Some(al), l, st, no)
    /\ op' = "license_filter"
    /\ pc' = "done"
    /\ UNCHANGED <<date_start, date_end, data, feeds, addr_minute_values,
                   addr_feed_values, report, csv, error, queries, min_stake, sort>>
    /\ UNCHANGED <<staked_holders, stake, whole_tokens, requests, collectors>>

\* Raw amounts around the powers of two where the float quotient loses the
\* sixth decimal: 2^34 = 17179 869184 and 2^33 = 8589 934592 millions.
WideAmounts ==
    {<<d2, d1, d0>> : d2 \in {0, 8589, 17179, 99999},
                      d1 \in {0, 1, 869183, 869184, 934592, 999999},
                      d0 \in {0, 1, 499999, 500000, 999998, 999999}}

\* Line 111 of _collate_simple on one raw amount.
Apply_int_true_div ==
    /\ pc = "idle"
    /\ \E r \in WideAmounts :
          /\ stake' = r
          /\ whole_tokens' = int_true_div(r)
    /\ op' = "int_true_div"
    /\ pc' = "done"
    /\ UNCHANGED <<date_start, date_end, data, licenses, staked, aliases, holders,
                   address_data, feeds, addr_minute_values, addr_feed_values,
                   report, csv, error, queries, min_stake, license_no, sort,
                   staked_holders>>
    /\ UNCHANGED <<requests, collectors>>

NextCollate ==
    \/ Apply_collate_simple
    \/ Apply_get_all_alias_addr_data
    \/ Apply_get_basic_addr_data
    \/ Apply_license_filter
    \/ Apply_int_true_div
    \/ Return

SpecCollate == Init /\ [][NextCollate]_vars

-----------------------------------------------------------------------------
(* reports.py: generate_participant_count_csv                              *)

\* str(n) for n >= 0.
RECURSIVE Str(_)
Str(n) ==
    LET digit == <<"0", "1", "2", "3", "4", "5", "6", "7", "8", "9">>[(n % 10) + 1]
    IN IF n < 10 THEN <<digit>> ELSE Str(n \div 10) \o <<digit>>

\* humanize.intcomma(n): the digits in groups of three, "," between them.
RECURSIVE intcomma(_)
intcomma(n) ==
    IF n < 0 THEN <<"-">> \o intcomma(-n)
    ELSE IF n < 1000 THEN Str(n)
    ELSE LET low == n % 1000
         IN intcomma(n \div 1000) \o <<",">>
                \o (IF low < 10 THEN <<"0", "0">> ELSE IF low < 100 THEN <<"0">> ELSE <<>>)
                \o Str(low)

\* s.replace(old, new) for a one-character old.
ReplaceChar(s, old, new) == [i \in 1..Len(s) |-> IF s[i] = old THEN new ELSE s[i]]

\* s.replace("Validator License", ""): a license text begins with the piece
\* "Validator License ", of which the blank stays.
RemoveValidatorLicense(s) == ReplaceChar(s, "Validator License ", " ")

\* s.split(":")
RECURSIVE SplitColon(_)
SplitColon(s) ==
    LET cols == {i \in 1..Len(s) : s[i] = ":"}
    IN IF cols = {} THEN <<s>>
       ELSE LET first == CHOOSE i \in cols : \A j \in cols : i <= j
            IN <<SubSeq(s, 1, first - 1)>> \o SplitColon(SubSeq(s, first + 1, Len(s)))

\* ",".join([c.strip() for c in count.split(":")]) of one entry of feeds_count.
FeedColumn(count) ==
    LET parts == SplitColon(count.str \o Str(count.num))
    IN Join(<<",">>, [i \in 1..Len(parts) |-> Strip(parts[i])])

\* The exception the loop body raises on one entry, "" when it completes:
\* None.replace (line 271), int(None) (line 272), participant_feeds[idx]
\* past max_feeds (line 278).
RowError(value, max_feeds) ==
    IF value.license.isNone THEN "AttributeError"
    ELSE IF value.stake.isNone THEN "TypeError"
    ELSE IF Len(value.feeds_count) > max_feeds THEN "IndexError"
    ELSE ""

\* The row of one entry (lines 270-288), field by field.
ParticipantRow(report_, stake_addr) ==
    LET value == report_.data[stake_addr]
        max_feeds == report_.expected_number_of_feeds
    IN [participant |-> stake_addr,
        license_no |-> Strip(RemoveValidatorLicense(value.license.val)),
        stake |-> ReplaceChar(intcomma(value.stake.val), ",", "."),
        total_days_in_range |-> report_.total_days_in_date_range,
        max_possible |-> intcomma(report_.max_possible_data_points),
        start |-> report_.start,
        end |-> report_.end,
        total_collected |-> intcomma(value.number_of_feeds_collected),
        total_data_points |-> intcomma(value.total_data_points),
        average_per_feed |-> intcomma(value.average_mins_collecting_per_feed),
        participant_feeds |->
            [idx \in 1..max_feeds |->
                IF idx <= Len(value.feeds_count)
                THEN FeedColumn(value.feeds_count[idx]) ELSE <<>>]]

\* generate_participant_count_csv: [error, rows]; the rows under the header,
\* one per entry of data in the dict's order, none when an entry raises.
generate_participant_count_csv(report_) ==
    LET max_feeds == report_.expected_number_of_feeds
        order == SortedSeq(DOMAIN report_.data)
        failing == {i \in 1..Len(order) :
                       RowError(report_.data[order[i]], max_feeds) # ""}
    IN IF failing # {}
       THEN [error |-> RowError(report_.data[order[CHOOSE i \in failing :
                                     \A j \in failing : i <= j]], max_feeds),
             rows |-> <<>>]
       ELSE [error |-> "",
             rows |-> [i \in 1..Len(order) |-> ParticipantRow(report_, order[i])]]

-----------------------------------------------------------------------------
(* The report assembler applied to every input within the bounds.          *)

\* _process_json_report on the coverage maps of any rows, any feed list, any
\* pair of date strings and an entitlement list.
Apply_process_json_report ==
    /\ pc = "idle"
    /\ \E rows \in Batches, fs \in SUBSET FeedIds, ds \in DateStrings,
          de \in DateStrings, l \in SourceLicenses :
          LET uf == get_unique_feeds(rows)
              dicts == get_addr_minute_feed_dicts(rows, uf.addresses)
              all == get_basic_addr_data(l, StakeOf)
              res == process_json_report(all, ds, de, dedupe_dicts(dicts.minute),
                                         dicts.feed, fs)
          IN /\ date_start' = ds
             /\ date_end' = de
             /\ address_data' = all
             /\ addr_minute_values' = dedupe_dicts(dicts.minute)
             /\ addr_feed_values' = dicts.feed
             /\ feeds' = fs
             /\ report' = res.report
             /\ error' = res.error
             /\ pc' = IF res.error = "" THEN "done" ELSE "failed"
    /\ op' = "process_json_report"
    /\ UNCHANGED <<data, licenses, staked, aliases, holders, csv, queries,
                   min_stake, license_no, sort>>
    /\ UNCHANGED <<staked_holders, stake, whole_tokens, requests, collectors>>

\* api.py get_participants_counts_day_csv past its queries: the report of any
\* rows, dates and entitlement answers, then generate_participant_count_csv.
Apply_generate_participant_count_csv ==
    /\ pc = "idle"
    /\ \E rows \in Batches, ds \in DateStrings, de \in DateStrings,
          l \in SourceLicenses, upstream \in SourceStakes :
          LET st == get_staked(upstream, MIN_FACT)
              all == get_basic_addr_data(l, st)
              uf == get_unique_feeds(rows)
              dicts == get_addr_minute_feed_dicts(rows, uf.addresses)
              res == participants_report(rows, all, ds, de)
              out == IF res.error = "" THEN generate_participant_count_csv(res.report.val)
                     ELSE [error |-> res.error, rows |-> <<>>]
          IN /\ date_start' = ds
             /\ date_end' = de
             /\ data' = rows
             /\ licenses' = l
             /\ staked_holders' = upstream
             /\ staked' = st
             /\ address_data' = all
             /\ addr_minute_values' = dedupe_dicts(dicts.minute)
             /\ addr_feed_values' = dicts.feed
             /\ feeds' = uf.feeds
             /\ report' = res.report
             /\ csv' = out.rows
             /\ error' = out.error
             /\ pc' = IF out.error = "" THEN "done" ELSE "failed"
    /\ op' = "participant_count_csv"
    /\ UNCHANGED <<aliases, holders, queries, min_stake, license_no, sort>>
    /\ UNCHANGED <<stake, whole_tokens, requests>>
    /\ UNCHANGED collectors

NextProcess ==
    \/ Apply_process_json_report
    \/ Apply_generate_participant_count_csv
    \/ Return

SpecProcess == Init /\ [][NextProcess]_vars

-----------------------------------------------------------------------------
(* Properties.                                                             *)

ReportDone == op = "report" /\ pc = "done"

\* The calendar minute a timestamp lies in: its hour and minute fields, that
\* is the text before its second ":" (all of it when it has no seconds).
MinuteOfTimestamp(ts) ==
    LET cols == {i \in 1..Len(ts) : ts[i] = ":"}
        first == CHOOSE i \in cols : \A j \in cols : i <= j
        later == cols \ {first}
    IN IF later = {} THEN ts
       ELSE SubSeq(ts, 1, (CHOOSE i \in later : \A j \in later : i <= j) - 1)

\* Whether the rows hold an observation of row's address, feed and minute.
SeenUnit(rows, row) ==
    \E i \in 1..Len(rows) :
        /\ rows[i][1] = row[1]
        /\ rows[i][3] = row[3]
        /\ MinuteOfTimestamp(rows[i][2]) = MinuteOfTimestamp(row[2])

\* The rows with one more row, in the address order of the query.
WithRow(rows, row) ==
    SelectSeq(rows, LAMBDA r : r[1] <= row[1]) \o <<row>>
        \o SelectSeq(rows, LAMBDA r : r[1] > row[1])

\* total_data_points of every address in the report of the rows.
TotalDataPoints(rows) ==
    LET r == participants_report(rows, address_data, date_start, date_end).report.val
    IN [a \in DOMAIN r.data |-> r.data[a].total_data_points]

\* C1: in a report, a further observation whose (address, feed, minute) the
\* batch already holds leaves total_data_points of every address unchanged.
C1_DuplicatesCountOnce ==
    ReportDone =>
        \A row \in Rows :
            SeenUnit(data, row) =>
                TotalDataPoints(WithRow(data, row)) = TotalDataPoints(data)

\* The addresses the license dict names, and those the stake dict names.
LicenseAddresses == {licenses[i][2] : i \in 1..Len(licenses)}

StakeAddresses == DOMAIN staked

EntitlementDone ==
    pc = "done" /\ op \in {"get_all_alias_addr_data", "get_basic_addr_data"}

\* C2: the staking addresses of the entitlement list are exactly the addresses
\* that are both a key of the stake dict and a value of the license dict, and
\* each appears once.
C2_ExactlyTheIntersection ==
    EntitlementDone =>
        /\ \A a \in Addresses :
              (a \in StakeAddresses /\ a \in LicenseAddresses)
                  <=> (\E i \in 1..Len(address_data) : address_data[i].staking = a)
        /\ \A i, j \in 1..Len(address_data) :
              address_data[i].staking = address_data[j].staking => i = j

\* C2's case: an address with a stake only, one with a license only and one
\* with both, which is in the list.
C2_Witness ==
    /\ EntitlementDone
    /\ StakeAddresses \ LicenseAddresses # {}
    /\ LicenseAddresses \ StakeAddresses # {}
    /\ Len(address_data) = 1

\* The addresses of the rows.
RowAddressesOf(rows) == {rows[i][1] : i \in 1..Len(rows)}

\* The records of an entitlement list for an address.
RecordsOf(list, a) == {i \in 1..Len(list) : list[i].staking = a}

\* C3: the report's entries are keyed by exactly the addresses of the batch
\* (an empty batch: no entries and expected_number_of_feeds = 0, and no batch
\* makes the assembly raise); an address without an entitlement record has
\* license and stake None, an address with one carries its licenses and stake.
C3_EntriesAreTheBatchAddresses ==
    /\ op = "report" => error \notin {"ZeroDivisionError", "KeyError"}
    /\ ReportDone =>
          LET r == report.val
          IN /\ ~report.isNone
             /\ DOMAIN r.data = RowAddressesOf(data)
             /\ data = <<>> => r.expected_number_of_feeds = 0
             /\ \A a \in DOMAIN r.data :
                   IF RecordsOf(address_data, a) = {}
                   THEN r.data[a].license.isNone /\ r.data[a].stake.isNone
                   ELSE \E i \in RecordsOf(address_data, a) :
                          /\ r.data[a].license =
                               Some(Join(<<",", " ">>, Texts(address_data[i].licenses)))
                          /\ r.data[a].stake = Some(address_data[i].staked)

\* C3's case: a report over a batch of two addresses, one with an entitlement
\* record (not the first of the list) and one without.
C3_Witness ==
    /\ ReportDone
    /\ RowAddressesOf(data) = {1, 2}
    /\ RecordsOf(address_data, 1) = {}
    /\ RecordsOf(address_data, 2) = {2}
    /\ report.val.data[1].license.isNone
    /\ ~report.val.data[2].stake.isNone

\* C4: _process_json_report never ends in a division fault, and with an empty
\* feed list it returns a report whose averages are all 0.
C4_NoDivisionFault ==
    op = "process_json_report" =>
        /\ error # "ZeroDivisionError"
        /\ (feeds = {} /\ StrptimeOk(date_start) /\ StrptimeOk(date_end)) =>
              /\ pc = "done"
              /\ \A a \in DOMAIN report.val.data :
                    report.val.data[a].average_mins_collecting_per_feed = 0

\* The minutes from midnight of one parsed date to midnight of the other.
MinutesBetween(ds, de) == (Ordinal(de) - Ordinal(ds)) * 24 * 60

\* C5: with two parseable date strings the assembly does not raise, and
\* max_possible_data_points is the minutes between the dates times the number
\* of distinct feed ids of the batch, negative when the end is the earlier date.
C5_MaxPossibleDataPoints ==
    (op = "report" /\ StrptimeOk(date_start) /\ StrptimeOk(date_end)) =>
        /\ pc = "failed" => error \in {"SQLError", "SourceError"}
        /\ pc = "done" =>
              LET n == Cardinality({data[i][3] : i \in 1..Len(data)})
                  r == report.val
              IN /\ r.expected_number_of_feeds = n
                 /\ r.max_possible_data_points = MinutesBetween(date_start, date_end) * n
                 /\ (date_start = <<2024, 3, 1>> /\ date_end = <<2024, 1, 1>>)
                       => r.max_possible_data_points = (0 - 86400) * n

\* C5's case: a report whose end date is before its start date, over two feeds.
C5_Witness ==
    /\ ReportDone
    /\ date_start = <<2024, 3, 1>>
    /\ date_end = <<2024, 1, 1>>
    /\ report.val.expected_number_of_feeds = 2
    /\ report.val.max_possible_data_points = 0 - 172800

CollateDone ==
    pc = "done"
        /\ op \in {"collate_simple", "get_all_alias_addr_data", "get_basic_addr_data"}

\* An entitlement list without its alias fields.
WithoutAlias(list) ==
    [i \in 1..Len(list) |->
        [staking |-> list[i].staking, staked |-> list[i].staked,
         licenses |-> list[i].licenses]]

\* C6: the collation run with any alias list returns the staking addresses,
\* staked amounts and licenses, in the order, that the run on the same stake
\* and license dicts without an alias list returns (so any two alias lists
\* give the same list but for the alias fields).
C6_AliasesChangeOnlyTheAlias ==
    CollateDone =>
        WithoutAlias(address_data)
            = WithoutAlias(collate_simple(holders, staked, licenses, None))

\* C6's case: a list of two holders collated with an alias list that names
\* the second of them only.
C6_Witness ==
    /\ CollateDone
    /\ Len(address_data) = 2
    /\ address_data[1].alias = <<>>
    /\ address_data[2].alias # <<>>
    /\ address_data[2].staking < address_data[1].staking

\* The entries of the alias list for an address.
EntriesFor(a) ==
    IF aliases.isNone THEN {}
    ELSE {i \in 1..Len(aliases.val) : aliases.val[i].staking = a}

\* C7: each record's alias is the alias of the first entry of the alias list
\* whose staking is the record's address, and "" when there is no such entry
\* (so never the alias found for a holder before it).
C7_AliasIsTheFirstMatch ==
    CollateDone =>
        \A i \in 1..Len(address_data) :
            LET e == EntriesFor(address_data[i].staking)
            IN IF e = {} THEN address_data[i].alias = <<>>
               ELSE address_data[i].alias
                        = aliases.val[CHOOSE k \in e : \A m \in e : k <= m].alias

\* C7's case: a holder without an alias entry collated after a holder that
\* has two entries, of which it got the first.
C7_Witness ==
    /\ CollateDone
    /\ Len(address_data) = 2
    /\ \E i, j \in 1..2 :
          /\ address_data[i].staking < address_data[j].staking
          /\ Cardinality(EntriesFor(address_data[i].staking)) = 2
          /\ aliases.val[1].alias # aliases.val[2].alias
          /\ address_data[i].alias = aliases.val[1].alias
          /\ EntriesFor(address_data[j].staking) = {}
          /\ address_data[j].alias = <<>>

C9_SourceFailurePropagates ==
    /\ queries.alias <= 1 /\ queries.licenses <= 1 /\ queries.staked <= 1
    /\ queries.raised \cap {"get_itn_alias", "get_licenses", "get_staked"} # {} =>
          /\ pc = "failed"
          /\ error = "SourceError"
          /\ report.isNone
          /\ address_data = <<>>
          /\ csv = <<>>

\* C9's case: the licenses query of a holders operation raised after its alias
\* query had answered.
C9_Witness ==
    /\ op = "holders"
    /\ queries.raised = {"get_licenses"}
    /\ queries.alias = 1
    /\ queries.licenses = 1
    /\ queries.staked = 0
    /\ pc = "failed"

\* C10: in the list of _collate_simple no record's licenses sort after those
\* of the record behind it, and of two consecutive records with equal licenses
\* the one with the lower staking address comes first.
C10_SortedByLicensesStable ==
    CollateDone =>
        \A i \in 1..(Len(address_data) - 1) :
            /\ ~ListLess(address_data[i + 1].licenses, address_data[i].licenses)
            /\ address_data[i].licenses = address_data[i + 1].licenses
                  => address_data[i].staking < address_data[i + 1].staking

\* C10's case: three records, the first two with equal licenses, the last
\* with licenses that sort after them and with the lowest address.
C10_Witness ==
    /\ CollateDone
    /\ Len(address_data) = 3
    /\ address_data[1].licenses = address_data[2].licenses
    /\ ListLess(address_data[2].licenses, address_data[3].licenses)
    /\ address_data[3].staking < address_data[1].staking


\* The license names whose text is "Validator License " followed by the selector.
NamedBy(selector) ==
    {n \in LicenseNames : NameText(n) = <<"Validator License ">> \o selector}

-----------------------------------------------------------------------------
(* api.py get_online_collectors and htm_helpers.participants_count_table   *)

MaxParticipants == 2

\* dict.get(key, default) on a dict kept as <<key, value>> pairs.
RECURSIVE DictGet(_, _, _)
DictGet(pairs, key, default) ==
    IF Len(pairs) = 0 THEN default
    ELSE IF pairs[Len(pairs)][1] = key THEN pairs[Len(pairs)][2]
    ELSE DictGet(SubSeq(pairs, 1, Len(pairs) - 1), key, default)

\* dict[key] = value: a new key goes last, a known key keeps its place.
DictSet(pairs, key, value) ==
    IF \E i \in 1..Len(pairs) : pairs[i][1] = key
    THEN [i \in 1..Len(pairs) |-> IF pairs[i][1] = key THEN <<key, value>> ELSE pairs[i]]
    ELSE Append(pairs, <<key, value>>)

\* The rows of the first query: (address, total_count, count_24hr), one per
\* address, the highest total first, count_24hr counted among the total.
ParticipantRows ==
    {<<a, t, c>> : a \in Addresses, t \in {1, 3000}, c \in {0, 1, 2880}}

ParticipantCounts ==
    {p \in SeqsUpTo({r \in ParticipantRows : r[3] <= r[2]}, MaxParticipants) :
        \A i, j \in 1..Len(p) : i < j => p[i][1] # p[j][1] /\ p[i][2] >= p[j][2]}

\* The numbers of distinct feeds of the last 48 hours the second query can
\* answer: at least one when an address has rows in the last 24 hours.
FeedCounts(rows) ==
    IF \E i \in 1..Len(rows) : rows[i][3] > 0 THEN {1, 2} ELSE {0, 1, 2}

\* round(count_24hr / no_feeds / 24 / 60, 4), in ten-thousandths: the nearest
\* one, the even one of two equally near.
RoundTenThousandths(count_24hr, no_feeds_) ==
    LET num == count_24hr * 10000
        den == no_feeds_ * 24 * 60
        q == num \div den
        twice == 2 * (num % den)
    IN IF twice > den \/ (twice = den /\ q % 2 = 1) THEN q + 1 ELSE q

\* The loop of get_online_collectors over the rows (lines 256-272): the five
\* structures after it. Dividing by no_feeds = 0 raises ZeroDivisionError in
\* the first statement of the try, and the handler binds the name
\* participant_count_1m_feed_average to the number 0.
RECURSIVE CollectorLoop(_, _, _)
CollectorLoop(rows, no_feeds_, acc) ==
    IF Len(rows) = 0 THEN acc
    ELSE LET address == rows[1][1]
             total_count == rows[1][2]
             count_24hr == rows[1][3]
             counted == [acc EXCEPT
                           !.total = DictSet(@, address, total_count),
                           !.last_24hr = DictSet(@, address, count_24hr)]
         IN CollectorLoop(Tail(rows), no_feeds_,
                IF no_feeds_ # 0
                THEN [counted EXCEPT
                        !.average_24h = DictSet(@, address,
                                            TruncDiv(count_24hr, no_feeds_) + 1),
                        !.average_1h = DictSet(@, address,
                                           TruncDiv(count_24hr, no_feeds_ * 24) + 1),
                        !.average_1m = [dict |-> DictSet(@.dict, address,
                                           RoundTenThousandths(count_24hr, no_feeds_))]]
                ELSE [counted EXCEPT
                        !.average_24h = DictSet(@, address, 0),
                        !.average_1h = DictSet(@, address, 0),
                        !.average_1m = [int |-> 0]])

\* Whether a value is a dict, which has .get, or a number, which has not.
IsDict(x) == "dict" \in DOMAIN x

\* htm_helpers.participants_count_table: [error, zero, rows]; zero is the
\* answer "zero collectors online", rows the <tr> rows in the order of
\* participants_count_total.
participants_count_table(total, last_24hr, average_24h, average_1h, average_1m) ==
    IF Len(total) = 0 THEN [error |-> "", zero |-> TRUE, rows |-> <<>>]
    ELSE IF ~IsDict(average_1m)
    THEN [error |-> "AttributeError", zero |-> FALSE, rows |-> <<>>]
    ELSE [error |-> "", zero |-> FALSE,
          rows |-> [i \in 1..Len(total) |->
              LET stake_key == total[i][1]
              IN [stake_key |-> stake_key,
                  count |-> intcomma(total[i][2]),
                  count_24hr |-> intcomma(DictGet(last_24hr, stake_key, 0)),
                  average_24hr |-> intcomma(DictGet(average_24h, stake_key, 0)),
                  average_1hr |-> intcomma(DictGet(average_1h, stake_key, 0)),
                  average_min |-> DictGet(average_1m.dict, stake_key, 0)]]]

\* GET /online_collectors.
Call_online_collectors ==
    /\ pc = "idle"
    /\ op' = "online_collectors"
    /\ pc' = "participants_count"
    /\ UNCHANGED <<date_start, date_end, data, licenses, staked, aliases, holders,
                   address_data, feeds, addr_minute_values, addr_feed_values,
                   report, csv, error, queries, min_stake, license_no, sort,
                   staked_holders, stake, whole_tokens, requests, collectors>>

\* Lines 226-233: the first query answers.
Query_participants_count ==
    /\ op = "online_collectors" /\ pc = "participants_count"
    /\ \E rows \in ParticipantCounts : participants_count' = rows
    /\ queries' = [queries EXCEPT !.store = @ + 1]
    /\ pc' = "feed_count"
    /\ UNCHANGED <<op, date_start, date_end, data, licenses, staked, aliases,
                   holders, address_data, feeds, addr_minute_values,
                   addr_feed_values, report, csv, error, min_stake, license_no,
                   sort, staked_holders, stake, whole_tokens, requests, no_feeds,
                   participants_count_total, participants_count_24hr,
                   participant_count_24h_feed_average,
                   participant_count_1h_feed_average,
                   participant_count_1m_feed_average, htmx>>

\* Lines 234-235, 245-246: a query raises apsw.SQLError and the endpoint
\* answers "zero collectors online".
Query_raises_SQLError ==
    /\ op = "online_collectors" /\ pc \in {"participants_count", "feed_count"}
    /\ queries' = [queries EXCEPT !.store = @ + 1, !.raised = @ \cup {pc}]
    /\ htmx' = Some([zero |-> TRUE, rows |-> <<>>])
    /\ pc' = "done"
    /\ UNCHANGED <<op, date_start, date_end, data, licenses, staked, aliases,
                   holders, address_data, feeds, addr_minute_values,
                   addr_feed_values, report, csv, error, min_stake, license_no,
                   sort, staked_holders, stake, whole_tokens, requests,
                   participants_count, no_feeds,
                   participants_count_total, participants_count_24hr,
                   participant_count_24h_feed_average,
                   participant_count_1h_feed_average,
                   participant_count_1m_feed_average>>

\* Lines 237-283: the second query answers, the loop fills the structures and
\* participants_count_table renders them.
Query_feed_count ==
    /\ op = "online_collectors" /\ pc = "feed_count"
    /\ \E n \in FeedCounts(participants_count) :
          LET acc == CollectorLoop(participants_count, n,
                         [total |-> <<>>, last_24hr |-> <<>>, average_24h |-> <<>>,
                          average_1h |-> <<>>, average_1m |-> [dict |-> <<>>]])
              table == participants_count_table(acc.total, acc.last_24hr,
                           acc.average_24h, acc.average_1h, acc.average_1m)
          IN /\ no_feeds' = n
             /\ participants_count_total' = acc.total
             /\ participants_count_24hr' = acc.last_24hr
             /\ participant_count_24h_feed_average' = acc.average_24h
             /\ participant_count_1h_feed_average' = acc.average_1h
             /\ participant_count_1m_feed_average' = acc.average_1m
             /\ error' = table.error
             /\ htmx' = IF table.error = ""
                        THEN Some([zero |-> table.zero, rows |-> table.rows])
                        ELSE None
             /\ pc' = IF table.error = "" THEN "done" ELSE "failed"
    /\ queries' = [queries EXCEPT !.store = @ + 1]
    /\ UNCHANGED <<op, date_start, date_end, data, licenses, staked, aliases,
                   holders, address_data, feeds, addr_minute_values,
                   addr_feed_values, report, csv, min_stake, license_no,
                   sort, staked_holders, stake, whole_tokens, requests,
                   participants_count>>

NextOnline ==
    \/ Call_online_collectors
    \/ Query_participants_count
    \/ Query_raises_SQLError
    \/ Query_feed_count
    \/ Return

SpecOnline == Init /\ [][NextOnline]_vars

\* C11: with a license_no, _get_all_alias_addr_data returns, in their order,
\* the records of the unfiltered list that hold a license named exactly
\* "Validator License " + license_no; without one (None or "") the full list.
C11_FilterIsExactMatch ==
    (pc = "done" /\ op = "license_filter") =>
        LET full == get_all_alias_addr_data(aliases, licenses, staked, None)
        IN IF license_no.isNone \/ license_no.val = <<>>
           THEN address_data = full
           ELSE address_data =
                  SelectSeq(full,
                      LAMBDA lic : Range(lic.licenses) \cap NamedBy(license_no.val) # {})

\* C11's case: the selector "#001" over a list of two records, the first
\* holding only "Validator License #0010", which is dropped, the second
\* holding "Validator License #001", which is kept.
C11_Witness ==
    /\ pc = "done" /\ op = "license_filter"
    /\ license_no = Some(<<"#", "0", "0", "1">>)
    /\ licenses = <<<<2, 1>>, <<1, 3>>>>
    /\ DOMAIN staked = {1, 3}
    /\ Len(address_data) = 1
    /\ address_data[1].staking = 3


\* The staking query has answered and get_staked has returned.
StakedDone == queries.staked > 0 /\ pc \in {"done", "failed"}

\* C12: get_staked keeps an address of the retrieved map exactly when its
\* amount is at least min_stake, with the amount unchanged; an address staking
\* exactly min_stake is kept.
C12_KeepsAtLeastMinStake ==
    StakedDone =>
        /\ DOMAIN staked = {k \in DOMAIN staked_holders : staked_holders[k] >= min_stake}
        /\ \A k \in DOMAIN staked : staked[k] = staked_holders[k]


\* C13: the staked amount reported for a raw amount r >= 0 is r divided by
\* 1,000,000 and truncated: staked * 1,000,000 <= r < (staked + 1) * 1,000,000,
\* never rounded up.
C13_StakedIsTruncated ==
    (pc = "done" /\ op = "int_true_div") =>
        /\ WideLeq(whole_tokens \o <<0>>, stake)
        /\ ~WideLeq(WideSucc(whole_tokens) \o <<0>>, stake)


-----------------------------------------------------------------------------
(* Two report requests in flight: get_participants_counts_date_range        *)
(* statement by statement, each execution on its own locals.                *)

\* The date ranges, observation batches and entitlement snapshots of the
\* requests in flight.
DateRanges ==
    {<<<<2024, 1, 1>>, <<2024, 3, 1>>>>, <<<<2024, 3, 1>>, <<2024, 1, 1>>>>,
     <<<<2024, 1, 1>>, <<2024, 2, 30>>>>}

FlightBatches ==
    {<<>>,
     <<Row(1, TS_00_00_10, <<"f", "1">>)>>,
     <<Row(1, TS_00_00_30, <<"f", "1">>), Row(2, TS_00_01_10, <<"f", "2">>)>>,
     <<Row(2, TS_00_00, <<"f", "2">>), Row(2, TS_00_00_10, <<"f", "2">>)>>}

\* Every variable but requests.
sequential ==
    <<op, pc, date_start, date_end, data, licenses, staked, aliases, holders,
      address_data, feeds, addr_minute_values, addr_feed_values, report, csv,
      error, queries, min_stake, license_no, sort, staked_holders, stake,
      whole_tokens, participants_count, no_feeds, participants_count_total,
      participants_count_24hr, participant_count_24h_feed_average,
      participant_count_1h_feed_average, participant_count_1m_feed_average, htmx>>

\* Lines 155-156 with the two dicts kept at module level: an execution starts
\* from what the other one left in them.
NewDicts_module_level(requests_, r) ==
    [minute |-> requests_[3 - r].addr_minute_values,
     feed |-> requests_[3 - r].addr_feed_values]

\* Lines 155-156: _get_addr_minute_feed_dicts starts from two new dicts.
NewDicts(requests_, r) == [minute |-> EmptyDict, feed |-> EmptyDict]

\* The endpoint calls get_participants_counts_date_range(app, date_start, date_end).
Begin(r) ==
    /\ requests[r].pc = "idle"
    /\ \E range \in DateRanges :
          requests' = [requests EXCEPT ![r] =
              [IdleFrame EXCEPT !.pc = "data", !.date_start = range[1],
                                !.date_end = range[2]]]
    /\ UNCHANGED sequential

\* Line 229: data = _get_participant_data_by_date_range(...).
Get_data(r) ==
    /\ requests[r].pc = "data"
    /\ \E rows \in FlightBatches :
          requests' = [requests EXCEPT ![r].data = rows, ![r].pc = "unique_feeds"]
    /\ UNCHANGED sequential

\* Line 230: feeds, addresses = _get_unique_feeds(data).
Get_unique_feeds(r) ==
    /\ requests[r].pc = "unique_feeds"
    /\ LET uf == get_unique_feeds(requests[r].data)
       IN requests' = [requests EXCEPT ![r].feeds = uf.feeds,
                                       ![r].addresses = uf.addresses,
                                       ![r].pc = "minute_feed_dicts"]
    /\ UNCHANGED sequential

\* Line 233: _get_addr_minute_feed_dicts(data, addresses); addresses.sort()
\* sorts the caller's list in place.
Get_addr_minute_feed_dicts(r) ==
    /\ requests[r].pc = "minute_feed_dicts"
    /\ LET sorted == SortedSeq(Range(requests[r].addresses))
           dicts == ScanAddresses(sorted, requests[r].data, NewDicts(requests, r))
       IN requests' = [requests EXCEPT ![r].addresses = sorted,
                                       ![r].addr_minute_values = dicts.minute,
                                       ![r].addr_feed_values = dicts.feed,
                                       ![r].pc = "dedupe_dicts"]
    /\ UNCHANGED sequential

\* Line 234: addr_minute_values = helpers.dedupe_dicts(addr_minute_values).
Dedupe(r) ==
    /\ requests[r].pc = "dedupe_dicts"
    /\ requests' = [requests EXCEPT
                       ![r].addr_minute_values = dedupe_dicts(@),
                       ![r].pc = "basic_addr_data"]
    /\ UNCHANGED sequential

\* Line 235: address_data = _get_basic_addr_data(...), on the entitlement
\* source's answers at that moment.
Get_basic_addr_data(r) ==
    /\ requests[r].pc = "basic_addr_data"
    /\ \E l \in SourceLicenses, upstream \in SourceStakes :
          LET st == get_staked(upstream, MIN_FACT)
          IN requests' = [requests EXCEPT
                             ![r].licenses = l,
                             ![r].staked = st,
                             ![r].address_data = get_basic_addr_data(l, st),
                             ![r].pc = "process_json_report"]
    /\ UNCHANGED sequential

\* Lines 236-239: report = _process_json_report(...); return report.
Process(r) ==
    /\ requests[r].pc = "process_json_report"
    /\ LET f == requests[r]
           res == process_json_report(f.address_data, f.date_start, f.date_end,
                      f.addr_minute_values, f.addr_feed_values, f.feeds)
       IN requests' = [requests EXCEPT
                          ![r].report = res.report,
                          ![r].error = res.error,
                          ![r].pc = IF res.error = "" THEN "done" ELSE "failed"]
    /\ UNCHANGED sequential

\* The response is sent and the locals are dropped.
Respond(r) ==
    /\ requests[r].pc \in {"done", "failed"}
    /\ requests' = [requests EXCEPT ![r] = IdleFrame]
    /\ UNCHANGED sequential

NextFlight ==
    \E r \in RequestIds :
        \/ Begin(r)
        \/ Get_data(r)
        \/ Get_unique_feeds(r)
        \/ Get_addr_minute_feed_dicts(r)
        \/ Dedupe(r)
        \/ Get_basic_addr_data(r)
        \/ Process(r)
        \/ Respond(r)

SpecFlight == Init /\ [][NextFlight]_vars

\* How far an execution has come.
Stage(f) ==
    CASE f.pc = "idle" -> 0
      [] f.pc = "data" -> 1
      [] f.pc = "unique_feeds" -> 2
      [] f.pc = "minute_feed_dicts" -> 3
      [] f.pc = "dedupe_dicts" -> 4
      [] f.pc = "basic_addr_data" -> 5
      [] f.pc = "process_json_report" -> 6
      [] OTHER -> 7

\* The locals of a request with the inputs of f that has run alone as far as f.
Alone(f) ==
    LET uf == get_unique_feeds(f.data)
        dicts == get_addr_minute_feed_dicts(f.data, uf.addresses)
        all == get_basic_addr_data(f.licenses, f.staked)
        res == participants_report(f.data, all, f.date_start, f.date_end)
        n == Stage(f)
    IN [pc |-> IF n < 7 THEN f.pc ELSE IF res.error = "" THEN "done" ELSE "failed",
        date_start |-> f.date_start,
        date_end |-> f.date_end,
        data |-> f.data,
        feeds |-> IF n >= 3 THEN uf.feeds ELSE {},
        addresses |-> IF n >= 4 THEN SortedSeq(Range(uf.addresses))
                      ELSE IF n = 3 THEN uf.addresses ELSE <<>>,
        addr_minute_values |-> IF n >= 5 THEN dedupe_dicts(dicts.minute)
                               ELSE IF n = 4 THEN dicts.minute ELSE EmptyDict,
        addr_feed_values |-> IF n >= 4 THEN dicts.feed ELSE EmptyDict,
        licenses |-> f.licenses,
        staked |-> f.staked,
        address_data |-> IF n >= 6 THEN all ELSE <<>>,
        report |-> IF n = 7 THEN res.report ELSE None,
        error |-> IF n = 7 THEN res.error ELSE ""]

\* C14: however the executions of get_participants_counts_date_range in
\* flight interleave, each one's maps, lists and sets, and the report or the
\* exception it ends in, are those of the same request run alone.
C14_RequestsDoNotInterfere ==
    \A r \in RequestIds : requests[r] = Alone(requests[r])

\* C14's case: two executions in flight at once, both with their maps built
\* from different batches, one of them about to assemble its report.
C14_Witness ==
    /\ requests[1].pc = "process_json_report"
    /\ requests[2].pc \in {"dedupe_dicts", "basic_addr_data", "process_json_report"}
    /\ requests[1].addr_minute_values # EmptyDict
    /\ requests[2].addr_minute_values # EmptyDict
    /\ DOMAIN requests[1].addr_minute_values # DOMAIN requests[2].addr_minute_values


\* The (feed, minute) pairs of the observations of an address in the rows.
FeedMinutes(rows, addr) ==
    {<<FeedOf(rows[i]), MinuteOfTimestamp(rows[i][2])>> :
        i \in {j \in 1..Len(rows) : rows[j][1] = addr}}

\* C15: total_data_points of an address is the number of distinct
\* (feed, minute) pairs of its observations: only the seconds of a timestamp
\* are dropped, and observations of different minutes are never merged,
\* whether or not the timestamps carry seconds.
C15_DistinctFeedMinutes ==
    ReportDone =>
        \A a \in DOMAIN report.val.data :
            report.val.data[a].total_data_points = Cardinality(FeedMinutes(data, a))


\* The observations of an address in the rows, and those of one of its feeds.
ObservationsOf(rows, addr) == {i \in 1..Len(rows) : rows[i][1] = addr}

ObservationsOfFeed(rows, addr, feed) ==
    {i \in ObservationsOf(rows, addr) : FeedOf(rows[i]) = feed}

RECURSIVE SumOfCounts(_)
SumOfCounts(pairs) ==
    IF Len(pairs) = 0 THEN 0 ELSE pairs[1].num + SumOfCounts(Tail(pairs))

\* C16: feeds_count of an address holds one "feed: count" pair for each
\* distinct feed of its observations, the count being the number of its
\* observations of that feed, duplicates included; the counts add up to the
\* number of its observations and number_of_feeds_collected is the number of
\* pairs.
C16_FeedsCountIsRaw ==
    ReportDone =>
        \A a \in DOMAIN report.val.data :
            LET entry == report.val.data[a]
                pairs == entry.feeds_count
                seen == {FeedOf(data[i]) : i \in ObservationsOf(data, a)}
            IN /\ Len(pairs) = Cardinality(seen)
               /\ {pairs[i].str : i \in 1..Len(pairs)} = {f \o <<":", " ">> : f \in seen}
               /\ \A i \in 1..Len(pairs), f \in seen :
                      pairs[i].str = f \o <<":", " ">> =>
                          pairs[i].num = Cardinality(ObservationsOfFeed(data, a, f))
               /\ SumOfCounts(pairs) = Cardinality(ObservationsOf(data, a))
               /\ entry.number_of_feeds_collected = Len(pairs)

\* C16's case: an address seen twice on one feed within one minute, counted
\* as one data point and as two observations of the feed.
C16_Witness ==
    /\ ReportDone
    /\ \E a \in DOMAIN report.val.data :
          /\ report.val.data[a].total_data_points = 1
          /\ Len(report.val.data[a].feeds_count) = 1
          /\ report.val.data[a].feeds_count[1].num = 2


\* generate_participant_count_csv was handed a report.
CountCsvDone ==
    op = "participant_count_csv" /\ pc \in {"done", "failed"} /\ ~report.isNone

\* C17: on every report of get_participants_counts_date_range,
\* generate_participant_count_csv returns, with exactly one row for each entry
\* of the report's data, entries whose license and stake are null included.
C17_CsvRowPerEntry ==
    CountCsvDone =>
        /\ error = ""
        /\ Len(csv) = Cardinality(DOMAIN report.val.data)


\* get_online_collectors went through its loop with no feed in the last 48
\* hours and at least one participant.
NoFeedsDone ==
    /\ op = "online_collectors" /\ pc \in {"done", "failed"}
    /\ queries.raised = {}
    /\ no_feeds = 0
    /\ Len(participants_count) > 0

\* The addresses of the rows the loop went through.
Processed == {participants_count[i][1] : i \in 1..Len(participants_count)}

\* C18: with no feed in the last 48 hours and at least one participant, the
\* three per-feed averages (24 h, 1 h, 1 min) are mappings that hold 0 for
\* every address processed, and participants_count_table returns one row for
\* each participant.
C18_ZeroFeedsIsComplete ==
    NoFeedsDone =>
        /\ IsDict(participant_count_1m_feed_average)
        /\ \A a \in Processed :
              /\ <<a, 0>> \in Range(participant_count_24h_feed_average)
              /\ <<a, 0>> \in Range(participant_count_1h_feed_average)
              /\ <<a, 0>> \in Range(participant_count_1m_feed_average.dict)
        /\ error = ""
        /\ ~htmx.isNone
        /\ Len(htmx.val.rows) = Len(participants_count)

====
